---- MODULE Spec2Model ----
(***************************************************************************)
(* Fractional-ownership token ledger of pallets/base-nft (storage items    *)
(* NextClassId, NextTokenId, Classes, Tokens, TokensByOwner and the         *)
(* functions create_class, transfer, mint, burn, destroy_class, is_owner). *)
(* Opaque payloads (metadata, class data, token data) are never read by    *)
(* the functions and are left out of the records.                          *)
(***************************************************************************)
EXTENDS Integers, Sequences, FiniteSets, TLC

\* ClassId::max_value() and TokenId::max_value() of the runtime's id types.
MaxClassId == 2
MaxTokenId == 2
\* Number of successful calls one behaviour commits.
MaxCalls == 4

Accounts == {1, 2, 3}
\* u8 percentages handed to transfer.
Percentages == {0, 20, 100, 110}
ClassIds == 0 .. (MaxClassId - 1)
TokenIds == 0 .. (MaxTokenId - 1)
TokenKeys == ClassIds \X TokenIds

VARIABLES NextClassId, NextTokenId, Classes, Tokens, TokensByOwner,
          returnedClassIds, returnedTokenIds, calls, last, NftPendingQueue

\* returnedClassIds / returnedTokenIds log the ids that successful create_class
\* and mint calls returned; calls counts the successful calls; last is the
\* call that has just returned, with its arguments and result.
\* NftPendingQueue is the storage value of the nft pallet.
stores == <<NextClassId, NextTokenId, Classes, Tokens, TokensByOwner>>
vars == <<NextClassId, NextTokenId, Classes, Tokens, TokensByOwner,
          returnedClassIds, returnedTokenIds, calls, last, NftPendingQueue>>

----------------------------------------------------------------------------
\* Option values and storage maps (a map is a function on its present keys).

None == <<>>
Some(v) == <<v>>

\* A storage map with no key present.
EmptyMap == [x \in {} |-> 0]
\* StorageMap::get of an OptionQuery map.
Lookup(map, k) == IF k \in DOMAIN map THEN Some(map[k]) ELSE None
\* StorageMap::insert.
Put(map, k, v) == [x \in (DOMAIN map) \cup {k} |-> IF x = k THEN v ELSE map[x]]
\* StorageMap::remove.
Remove(map, k) == [x \in (DOMAIN map) \ {k} |-> map[x]]
\* Variant: mutate, which writes the slot back whatever the closure returned.
try_mutate_always(map, k, slot, ok) ==
    IF slot = None THEN [x \in (DOMAIN map) \ {k} |-> map[x]]
    ELSE [x \in (DOMAIN map) \cup {k} |-> IF x = k THEN slot[1] ELSE map[x]]

\* What try_mutate / try_mutate_exists leave in storage: the slot is written
\* back (or killed when None) only when the closure returned Ok.
try_mutate(map, k, slot, ok) ==
    IF ~ok THEN map
    ELSE IF slot = None THEN Remove(map, k) ELSE Put(map, k, slot[1])

\* Vec::contains.
Contains(seq, x) == \E i \in 1 .. Len(seq) : seq[i] = x

\* Variant: wrapping_add, which passes max and starts again at 0.
checked_add_wrapping(x, max) == Some((x + 1) % (max + 1))

\* Variant: saturating_add, which stays at max instead of failing.
checked_add_saturating(x, max) == IF x + 1 > max THEN Some(max) ELSE Some(x + 1)

\* checked_add(&One::one()) on an id type whose largest value is max.
checked_add(x, max) == IF x + 1 > max THEN None ELSE Some(x + 1)
\* checked_sub(&One::one()).
checked_sub(x) == IF x - 1 < 0 THEN None ELSE Some(x - 1)

\* Variant: the next token id is taken from the class's total_issuance.
next_token_id_from_issuance(class_id) ==
    IF class_id \in DOMAIN Classes THEN Classes[class_id].total_issuance ELSE 0

\* ValueQuery read of NextTokenId: Default::default() when the key is absent.
next_token_id(class_id) ==
    IF class_id \in DOMAIN NextTokenId THEN NextTokenId[class_id] ELSE 0

\* ValueQuery read of TokensByOwner: TokenByOwnerData::default().
tokens_by_owner(tbo, account, token) ==
    IF <<account, token>> \in DOMAIN tbo
    THEN tbo[<<account, token>>] ELSE [percent_owned |-> 0]

----------------------------------------------------------------------------
\* create_class

create_class(owner) ==
    LET id == checked_add(NextClassId, MaxClassId) IN
    /\ last.op = "idle"
    /\ calls < MaxCalls
    /\ IF id = None
       THEN /\ last' = [op |-> "create_class", owner |-> owner,
                        result |-> "NoAvailableClassId"]
            /\ UNCHANGED <<stores, returnedClassIds, returnedTokenIds, calls>>
            /\ UNCHANGED NftPendingQueue
       ELSE /\ NextClassId' = id[1]
            /\ Classes' = Put(Classes, NextClassId,
                              [total_issuance |-> 0, owner |-> owner])
            /\ returnedClassIds' = Append(returnedClassIds, NextClassId)
            /\ calls' = calls + 1
            /\ last' = [op |-> "create_class", owner |-> owner,
                        result |-> "Ok", ret |-> NextClassId]
            /\ UNCHANGED <<NextTokenId, Tokens, TokensByOwner, returnedTokenIds>>
            /\ UNCHANGED NftPendingQueue


----------------------------------------------------------------------------
\* transfer

\* Variant: token_info.take(), as burn does, which empties the slot.
transfer_token_slot_take(token_info) == None

\* token_info.as_mut(): the value stays in the storage slot while borrowed.
transfer_token_slot(token_info) == token_info

\* if !info.owners.contains(to) { info.owners.push(to.clone()) }
transfer_owners(owners, to) ==
    IF Contains(owners, to) THEN owners ELSE Append(owners, to)

\* ensure!(sender_token.percent_owned > percentage, SenderInsufficientPercentage)
sender_sufficient(percent_owned, percentage) == percent_owned > percentage

\* Variant: the recipient's record is inserted with percent_owned = percentage
\* and the sender's record is left alone.
transfer_ledger_insert(tbo, from, to, token, percentage) ==
    [result |-> "Ok",
     tbo |-> Put(tbo, <<to, token>>, [percent_owned |-> percentage])]

\* The nested TokensByOwner::try_mutate calls. The outer closure fails before
\* the inner call when the ensure! trips, and then nothing is written. When it
\* passes, the inner try_mutate returns Ok and writes the recipient's
\* (ValueQuery) value back, and the outer one then writes the sender's value
\* back; neither closure changes percent_owned.
transfer_ledger(tbo, from, to, token, percentage) ==
    LET sender_token == tokens_by_owner(tbo, from, token)
        recipient_token == tokens_by_owner(tbo, to, token)
    IN  IF sender_sufficient(sender_token.percent_owned, percentage)
        THEN [result |-> "Ok",
              tbo |-> Put(Put(tbo, <<to, token>>, recipient_token),
                          <<from, token>>, sender_token)]
        ELSE [result |-> "SenderInsufficientPercentage", tbo |-> tbo]

\* Variant of the closure that writes the recipient's record first, checks the
\* sender's percentage afterwards and propagates that failure.
transfer_closure_credit_first(token_info, tbo, from, to, token, percentage) ==
    IF token_info = None
    THEN [result |-> "TokenNotFound", slot |-> token_info, tbo |-> tbo]
    ELSE IF ~Contains(token_info[1].owners, from)
    THEN [result |-> "NoPermission", slot |-> token_info, tbo |-> tbo]
    ELSE IF from = to
    THEN [result |-> "Ok", slot |-> token_info, tbo |-> tbo]
    ELSE [result |-> transfer_ledger(tbo, from, to, token, percentage).result,
          slot |-> Some([token_info[1] EXCEPT
                            !.owners = transfer_owners(@, to)]),
          tbo |-> Put(tbo, <<to, token>>, tokens_by_owner(tbo, to, token))]

\* The closure handed to Tokens::try_mutate: its result, the Tokens slot it
\* leaves and the TokensByOwner map after it. The result of the outer
\* TokensByOwner::try_mutate is dropped, so past the two checks the closure
\* ends Ok(()).
transfer_closure(token_info, tbo, from, to, token, percentage) ==
    IF token_info = None
    THEN [result |-> "TokenNotFound", slot |-> token_info, tbo |-> tbo]
    ELSE IF ~Contains(token_info[1].owners, from)
    THEN [result |-> "NoPermission", slot |-> token_info, tbo |-> tbo]
    ELSE IF from = to
    THEN [result |-> "Ok", slot |-> transfer_token_slot(token_info), tbo |-> tbo]
    ELSE [result |-> "Ok",
          slot |-> IF transfer_token_slot(token_info) = None THEN None
                   ELSE Some([token_info[1] EXCEPT
                                 !.owners = transfer_owners(@, to)]),
          tbo |-> transfer_ledger(tbo, from, to, token, percentage).tbo]

transfer(from, to, token, percentage) ==
    LET out == transfer_closure(Lookup(Tokens, token), TokensByOwner,
                                from, to, token, percentage)
    IN  /\ last.op = "idle"
        /\ calls < MaxCalls
        /\ last' = [op |-> "transfer", from |-> from, to |-> to, token |-> token,
                    percentage |-> percentage, result |-> out.result]
        /\ Tokens' = try_mutate(Tokens, token, out.slot, out.result = "Ok")
        /\ TokensByOwner' = out.tbo
        /\ calls' = IF out.result = "Ok" THEN calls + 1 ELSE calls
        /\ UNCHANGED <<NextClassId, NextTokenId, Classes,
                       returnedClassIds, returnedTokenIds>>
        /\ UNCHANGED NftPendingQueue

----------------------------------------------------------------------------
\* mint

\* By default, minter gets 100% ownership.
minted_percent == 100

\* Variant: the class is found but its total_issuance is not incremented.
mint_class_no_increment(class_info) ==
    IF class_info = None THEN [result |-> "ClassNotFound", slot |-> class_info]
    ELSE [result |-> "Ok", slot |-> class_info]

\* The closure handed to Classes::try_mutate by mint.
mint_class(class_info) ==
    IF class_info = None THEN [result |-> "ClassNotFound", slot |-> class_info]
    ELSE LET sum == checked_add(class_info[1].total_issuance, MaxTokenId) IN
         IF sum = None THEN [result |-> "NumOverflow", slot |-> class_info]
         ELSE [result |-> "Ok",
               slot |-> Some([class_info[1] EXCEPT !.total_issuance = sum[1]])]

mint_result(class_id) ==
    IF checked_add(next_token_id(class_id), MaxTokenId) = None
    THEN "NoAvailableTokenId"
    ELSE mint_class(Lookup(Classes, class_id)).result

mint(owner, class_id) ==
    LET token_id == next_token_id(class_id)
        id == checked_add(token_id, MaxTokenId)
        result == mint_result(class_id)
        class == mint_class(Lookup(Classes, class_id))
    IN  /\ last.op = "idle"
        /\ calls < MaxCalls
        /\ NextTokenId' =
              try_mutate(NextTokenId, class_id,
                         Some(IF id = None THEN token_id ELSE id[1]),
                         result = "Ok")
        /\ Classes' = IF id = None THEN Classes
                      ELSE try_mutate(Classes, class_id, class.slot,
                                      class.result = "Ok")
        /\ Tokens' = IF result = "Ok"
                     THEN Put(Tokens, <<class_id, token_id>>,
                              [owners |-> <<owner>>])
                     ELSE Tokens
        /\ TokensByOwner' =
              IF result = "Ok"
              THEN Put(TokensByOwner, <<owner, <<class_id, token_id>>>>,
                       [percent_owned |-> minted_percent])
              ELSE TokensByOwner
        /\ returnedTokenIds' =
              IF result = "Ok"
              THEN Append(returnedTokenIds, <<class_id, token_id>>)
              ELSE returnedTokenIds
        /\ calls' = IF result = "Ok" THEN calls + 1 ELSE calls
        /\ last' = IF result = "Ok"
                   THEN [op |-> "mint", owner |-> owner, class_id |-> class_id,
                         result |-> "Ok", ret |-> token_id]
                   ELSE [op |-> "mint", owner |-> owner, class_id |-> class_id,
                         result |-> result]
        /\ UNCHANGED <<NextClassId, returnedClassIds>>
        /\ UNCHANGED NftPendingQueue

----------------------------------------------------------------------------
\* burn

\* Variant: token_info.as_mut(), which leaves the token in its slot.
burn_token_slot_kept(token_info) == token_info

\* token_info.take(): the storage slot is left empty.
burn_token_slot(token_info) == None

\* Variant: the class is found but its total_issuance is not decremented.
burn_class_no_decrement(class_info) ==
    IF class_info = None THEN [result |-> "ClassNotFound", slot |-> class_info]
    ELSE [result |-> "Ok", slot |-> class_info]

\* The closure handed to Classes::try_mutate by burn.
burn_class(class_info) ==
    IF class_info = None THEN [result |-> "ClassNotFound", slot |-> class_info]
    ELSE LET diff == checked_sub(class_info[1].total_issuance) IN
         IF diff = None THEN [result |-> "NumOverflow", slot |-> class_info]
         ELSE [result |-> "Ok",
               slot |-> Some([class_info[1] EXCEPT !.total_issuance = diff[1]])]

\* Variant: only the first account of the owners list may burn.
burn_result_first_owner(owner, token) ==
    LET token_info == Lookup(Tokens, token) IN
    IF token_info = None THEN "TokenNotFound"
    ELSE IF token_info[1].owners[1] # owner THEN "NoPermission"
    ELSE burn_class(Lookup(Classes, token[1])).result

burn_result(owner, token) ==
    LET token_info == Lookup(Tokens, token) IN
    IF token_info = None THEN "TokenNotFound"
    ELSE IF ~Contains(token_info[1].owners, owner) THEN "NoPermission"
    ELSE burn_class(Lookup(Classes, token[1])).result

\* TokensByOwner::remove(owner, token)
burn_ledger(tbo, owner, token) == Remove(tbo, <<owner, token>>)

burn(owner, token) ==
    LET token_info == Lookup(Tokens, token)
        result == burn_result(owner, token)
        class == burn_class(Lookup(Classes, token[1]))
    IN  /\ last.op = "idle"
        /\ calls < MaxCalls
        /\ last' = [op |-> "burn", owner |-> owner, token |-> token,
                    result |-> result]
        /\ Tokens' = try_mutate(Tokens, token, burn_token_slot(token_info),
                                result = "Ok")
        /\ Classes' = IF result = "Ok"
                      THEN try_mutate(Classes, token[1], class.slot, TRUE)
                      ELSE Classes
        /\ TokensByOwner' = IF result = "Ok"
                            THEN burn_ledger(TokensByOwner, owner, token)
                            ELSE TokensByOwner
        /\ calls' = IF result = "Ok" THEN calls + 1 ELSE calls
        /\ UNCHANGED <<NextClassId, NextTokenId, returnedClassIds, returnedTokenIds>>
        /\ UNCHANGED NftPendingQueue

----------------------------------------------------------------------------
\* destroy_class

\* Variant: the total_issuance check is missing.
destroy_class_result_no_issuance_check(owner, class_id) ==
    LET class_info == Lookup(Classes, class_id) IN
    IF class_info = None THEN "ClassNotFound"
    ELSE IF class_info[1].owner # owner THEN "NoPermission"
    ELSE "Ok"

destroy_class_result(owner, class_id) ==
    LET class_info == Lookup(Classes, class_id) IN
    IF class_info = None THEN "ClassNotFound"
    ELSE IF class_info[1].owner # owner THEN "NoPermission"
    ELSE IF class_info[1].total_issuance # 0 THEN "CannotDestroyClass"
    ELSE "Ok"

\* Variant: the class's NextTokenId entry is left in storage.
destroy_class_next_token_id_kept(ntid, class_id) == ntid

\* NextTokenId::<T>::remove(class_id)
destroy_class_next_token_id(ntid, class_id) == Remove(ntid, class_id)

destroy_class(owner, class_id) ==
    LET result == destroy_class_result(owner, class_id) IN
    /\ last.op = "idle"
    /\ calls < MaxCalls
    /\ last' = [op |-> "destroy_class", owner |-> owner, class_id |-> class_id,
                result |-> result]
    /\ Classes' = try_mutate(Classes, class_id, None, result = "Ok")
    /\ NextTokenId' = IF result = "Ok"
                      THEN destroy_class_next_token_id(NextTokenId, class_id)
                      ELSE NextTokenId
    /\ calls' = IF result = "Ok" THEN calls + 1 ELSE calls
    /\ UNCHANGED <<NextClassId, Tokens, TokensByOwner,
                   returnedClassIds, returnedTokenIds>>
    /\ UNCHANGED NftPendingQueue

----------------------------------------------------------------------------
\* is_owner: TokensByOwner::contains_key(account, token)

is_owner(account, token) == <<account, token>> \in DOMAIN TokensByOwner

----------------------------------------------------------------------------
\* The call has run to completion and its result is with the caller, which
\* may now issue the next call.
complete ==
    /\ last.op # "idle"
    /\ last' = [op |-> "idle"]
    /\ UNCHANGED <<stores, returnedClassIds, returnedTokenIds, calls>>
    /\ UNCHANGED NftPendingQueue

----------------------------------------------------------------------------
Init ==
    /\ NextClassId = 0
    /\ NextTokenId = EmptyMap
    /\ Classes = EmptyMap
    /\ Tokens = EmptyMap
    /\ TokensByOwner = EmptyMap
    /\ returnedClassIds = <<>>
    /\ returnedTokenIds = <<>>
    /\ calls = 0
    /\ last = [op |-> "idle"]
    /\ NftPendingQueue = <<>>

Next ==
    \/ \E owner \in Accounts : create_class(owner)
    \/ \E owner \in Accounts, class_id \in ClassIds : mint(owner, class_id)
    \/ \E from \in Accounts, to \in Accounts, token \in TokenKeys,
          percentage \in Percentages : transfer(from, to, token, percentage)
    \/ \E owner \in Accounts, token \in TokenKeys : burn(owner, token)
    \/ \E owner \in Accounts, class_id \in ClassIds : destroy_class(owner, class_id)
    \/ complete

Spec == Init /\ [][Next]_vars

\* The storage the unit tests start their failing calls from. Besides the
\* empty ledger: after create_class(1) and mint(2, 0), burn_should_fail
\* overwrites the class's total_issuance with 0; after create_class(1),
\* mint_should_fail overwrites total_issuance, and then NextTokenId as well,
\* with TokenId::max_value().
InitTests ==
    \/ Init
    \/ /\ NextClassId = 1
       /\ NextTokenId = Put(EmptyMap, 0, 1)
       /\ Classes = Put(EmptyMap, 0, [total_issuance |-> 0, owner |-> 1])
       /\ Tokens = Put(EmptyMap, <<0, 0>>, [owners |-> <<2>>])
       /\ TokensByOwner = Put(EmptyMap, <<2, <<0, 0>>>>,
                              [percent_owned |-> minted_percent])
       /\ returnedClassIds = <<0>>
       /\ returnedTokenIds = <<<<0, 0>>>>
       /\ calls = 2
       /\ last = [op |-> "idle"]
       /\ NftPendingQueue = <<>>
    \/ /\ NextClassId = 1
       /\ NextTokenId \in {EmptyMap, Put(EmptyMap, 0, MaxTokenId)}
       /\ Classes = Put(EmptyMap, 0,
                        [total_issuance |-> MaxTokenId, owner |-> 1])
       /\ Tokens = EmptyMap
       /\ TokensByOwner = EmptyMap
       /\ returnedClassIds = <<0>>
       /\ returnedTokenIds = <<>>
       /\ calls = 1
       /\ last = [op |-> "idle"]
       /\ NftPendingQueue = <<>>

SpecTests == InitTests /\ [][Next]_vars

----------------------------------------------------------------------------
\* The nft pallet: the queue of pending requests.

\* Longest queue a block collects before on_finalize empties it.
MaxQueue == 3

\* ByteVector values of TokenData.dna.
Dnas == {<<>>, <<1>>}

\* PendingNft { account_id, class_id, token_data: TokenData { dna } }
PendingNfts ==
    [account_id : Accounts, class_id : ClassIds, token_data : [dna : Dnas]]

\* Ord::cmp of two integers.
cmp_int(a, b) == IF a < b THEN "Less" ELSE IF a > b THEN "Greater" ELSE "Equal"

\* Ord::cmp of two Vec<u8>: lexicographic, a proper prefix is Less.
RECURSIVE cmp_bytes(_, _)
cmp_bytes(a, b) ==
    IF a = <<>> THEN (IF b = <<>> THEN "Equal" ELSE "Less")
    ELSE IF b = <<>> THEN "Greater"
    ELSE IF a[1] # b[1] THEN cmp_int(a[1], b[1])
    ELSE cmp_bytes(Tail(a), Tail(b))

\* The derived Ord of PendingNft: the fields compared in declaration order.
cmp(a, b) ==
    IF cmp_int(a.account_id, b.account_id) # "Equal"
    THEN cmp_int(a.account_id, b.account_id)
    ELSE IF cmp_int(a.class_id, b.class_id) # "Equal"
    THEN cmp_int(a.class_id, b.class_id)
    ELSE cmp_bytes(a.token_data.dna, b.token_data.dna)

\* The slice s[i] of Rust, indexed from 0.
At(s, i) == s[i + 1]

\* Vec::remove(index), indexed from 0.
RemoveAt(s, index) ==
    [i \in 1 .. (Len(s) - 1) |-> IF i <= index THEN s[i] ELSE s[i + 1]]

\* slice::binary_search as the standard library computes it. Its result on a
\* slice that is not sorted is unspecified; the two loops the library has
\* shipped are modelled, and a call may run either.
\* Loop that halves size and compares for equality once, at the end.
RECURSIVE binary_search_halving_base(_, _, _, _)
binary_search_halving_base(s, x, base, size) ==
    IF size > 1
    THEN LET half == size \div 2
             mid == base + half
         IN  binary_search_halving_base(
                 s, x, IF cmp(At(s, mid), x) = "Greater" THEN base ELSE mid,
                 size - half)
    ELSE base

binary_search_halving(s, x) ==
    IF Len(s) = 0 THEN [ok |-> FALSE, index |-> 0]
    ELSE LET base == binary_search_halving_base(s, x, 0, Len(s))
             c == cmp(At(s, base), x)
         IN  IF c = "Equal" THEN [ok |-> TRUE, index |-> base]
             ELSE [ok |-> FALSE, index |-> IF c = "Less" THEN base + 1 ELSE base]

\* Loop over [left, right) that returns as soon as a comparison is Equal.
RECURSIVE binary_search_early_return(_, _, _, _)
binary_search_early_return(s, x, left, right) ==
    IF left < right
    THEN LET mid == left + ((right - left) \div 2)
             c == cmp(At(s, mid), x)
         IN  IF c = "Less" THEN binary_search_early_return(s, x, mid + 1, right)
             ELSE IF c = "Greater" THEN binary_search_early_return(s, x, left, mid)
             ELSE [ok |-> TRUE, index |-> mid]
    ELSE [ok |-> FALSE, index |-> left]

BinarySearchLoops == {"halving", "early_return"}

binary_search(s, x, loop) ==
    IF loop = "halving" THEN binary_search_halving(s, x)
    ELSE binary_search_early_return(s, x, 0, Len(s))

\* remove_nft_from_pending_queue: its result and the queue it leaves.
remove_nft_from_pending_queue(queue, pending_nft, loop) ==
    LET found == binary_search(queue, pending_nft, loop) IN
    IF found.ok
    THEN [result |-> "Ok", queue |-> RemoveAt(queue, found.index)]
    ELSE [result |-> "TryToRemoveNftWhichDoesNotExist", queue |-> queue]

nft_request(account_id, class_id, token_data) ==
    LET pending_nft == [account_id |-> account_id, class_id |-> class_id,
                        token_data |-> token_data]
    IN  /\ last.op = "idle"
        /\ Len(NftPendingQueue) < MaxQueue
        /\ NftPendingQueue' = Append(NftPendingQueue, pending_nft)
        /\ last' = [op |-> "nft_request", pending_nft |-> pending_nft,
                    result |-> "Ok"]
        /\ UNCHANGED <<stores, returnedClassIds, returnedTokenIds, calls>>

cancel_nft_request(pending_nft) ==
    \E loop \in BinarySearchLoops :
        LET out == remove_nft_from_pending_queue(NftPendingQueue, pending_nft, loop)
        IN  /\ last.op = "idle"
            /\ NftPendingQueue' = out.queue
            /\ last' = [op |-> "cancel_nft_request", pending_nft |-> pending_nft,
                        result |-> out.result]
            /\ UNCHANGED <<stores, returnedClassIds, returnedTokenIds, calls>>

\* mint_nft removes the request and then calls OrmlNft::mint, which belongs
\* to another crate and may succeed or fail (minted); with its error returned
\* the request stays removed.
mint_nft(pending_nft) ==
    \E loop \in BinarySearchLoops, minted \in BOOLEAN :
        LET out == remove_nft_from_pending_queue(NftPendingQueue, pending_nft, loop)
        IN  /\ last.op = "idle"
            /\ NftPendingQueue' = out.queue
            /\ last' = [op |-> "mint_nft", pending_nft |-> pending_nft,
                        result |-> IF out.result # "Ok" THEN out.result
                                   ELSE IF minted THEN "Ok" ELSE "MintError"]
            /\ UNCHANGED <<stores, returnedClassIds, returnedTokenIds, calls>>

\* on_finalize: the queue is handed to the off-chain index and emptied.
on_finalize ==
    /\ last.op = "idle"
    /\ NftPendingQueue' = <<>>
    /\ last' = [op |-> "on_finalize"]
    /\ UNCHANGED <<stores, returnedClassIds, returnedTokenIds, calls>>

NextQueue ==
    \/ \E account_id \in Accounts, class_id \in ClassIds,
          token_data \in [dna : Dnas] :
              nft_request(account_id, class_id, token_data)
    \/ \E pending_nft \in PendingNfts : cancel_nft_request(pending_nft)
    \/ \E pending_nft \in PendingNfts : mint_nft(pending_nft)
    \/ on_finalize
    \/ complete

SpecQueue == Init /\ [][NextQueue]_vars

----------------------------------------------------------------------------
\* Views of the stores used by the properties below.

\* The accounts in a token's owners list.
OwnerSet(token) ==
    {Tokens[token].owners[i] : i \in 1 .. Len(Tokens[token].owners)}

\* The accounts holding a TokensByOwner record with nonzero percent_owned.
Holders(token) ==
    {a \in Accounts : /\ <<a, token>> \in DOMAIN TokensByOwner
                      /\ TokensByOwner[<<a, token>>].percent_owned # 0}

\* The accounts holding any TokensByOwner record for the token.
RecordHolders(tbo, token) == {a \in Accounts : <<a, token>> \in DOMAIN tbo}

RECURSIVE SumPercent(_, _, _)
SumPercent(tbo, token, accounts) ==
    IF accounts = {} THEN 0
    ELSE LET a == CHOOSE x \in accounts : TRUE IN
         tbo[<<a, token>>].percent_owned + SumPercent(tbo, token, accounts \ {a})

\* Sum of percent_owned over all records stored for the token.
PercentSum(token) ==
    SumPercent(TokensByOwner, token, RecordHolders(TokensByOwner, token))

\* percent_owned recorded for account (0 when it has no record).
Percent(tbo, account, token) == tokens_by_owner(tbo, account, token).percent_owned

NoDuplicates(seq) ==
    \A i \in 1 .. Len(seq), j \in 1 .. Len(seq) : seq[i] = seq[j] => i = j

\* The step is a transfer call; its arguments are in last'.
TransferStep == last'.op = "transfer"

----------------------------------------------------------------------------
\* C1: for every token in Tokens, the accounts with a nonzero TokensByOwner
\* record are exactly the accounts of the token's owners list.
C1_OwnersMatchLedger ==
    \A token \in DOMAIN Tokens : Holders(token) = OwnerSet(token)

\* C2: for every token in Tokens, the percent_owned of all its TokensByOwner
\* records sum to exactly 100.
C2_PercentSum ==
    \A token \in DOMAIN Tokens : PercentSum(token) = 100

\* A live token that a transfer has given a second listed owner and a second
\* ledger record.
C2_Witness ==
    /\ last.op = "transfer"
    /\ last.result = "Ok"
    /\ last.from # last.to
    /\ last.token \in DOMAIN Tokens
    /\ Len(Tokens[last.token].owners) >= 2
    /\ Cardinality(RecordHolders(TokensByOwner, last.token)) >= 2

\* C3: every class's total_issuance equals the number of Tokens entries of
\* that class.
C3_IssuanceCountsTokens ==
    \A class_id \in DOMAIN Classes :
        Classes[class_id].total_issuance =
            Cardinality({token \in DOMAIN Tokens : token[1] = class_id})

\* A burn has just succeeded in a class that still holds another token.
C3_Witness ==
    /\ last.op = "burn"
    /\ last.result = "Ok"
    /\ last.token[1] \in DOMAIN Classes
    /\ Classes[last.token[1]].total_issuance = 1
    /\ \E token \in DOMAIN Tokens : token[1] = last.token[1]

\* C4: no class id is returned twice by create_class and no (class, token) id
\* is returned twice by mint, whatever calls failed, burned or destroyed in
\* between.
C4_IdsNeverReused ==
    /\ NoDuplicates(returnedClassIds)
    /\ NoDuplicates(returnedTokenIds)

\* A mint has returned a second token id in a class whose first token was
\* burned before.
C4_Witness ==
    /\ last.op = "mint"
    /\ last.result = "Ok"
    /\ Len(returnedTokenIds) = 2
    /\ returnedTokenIds[1][1] = returnedTokenIds[2][1]
    /\ returnedTokenIds[1] \notin DOMAIN Tokens

\* C5: a transfer that returns an error leaves all five stores as they were.
C5_FailedTransferAtomic ==
    [][(TransferStep /\ last'.result # "Ok") => UNCHANGED stores]_vars

\* A transfer between two different accounts of a live token has failed.
C5_Witness ==
    /\ last.op = "transfer"
    /\ last.result = "NoPermission"
    /\ last.from # last.to
    /\ last.token \in DOMAIN Tokens

\* C6: for from != to and a live token that from owns, a transfer of more than
\* the sender's recorded percentage fails with SenderInsufficientPercentage
\* and changes no store.
C6_InsufficientFails ==
    [][(/\ TransferStep
        /\ last'.from # last'.to
        /\ last'.token \in DOMAIN Tokens
        /\ Contains(Tokens[last'.token].owners, last'.from)
        /\ last'.percentage > Percent(TokensByOwner, last'.from, last'.token))
       => (/\ last'.result = "SenderInsufficientPercentage"
           /\ UNCHANGED stores)]_vars

\* C7: for from != to, a live token that from owns and 0 < percentage <= the
\* sender's recorded percentage, transfer succeeds, the sender's percentage
\* drops by percentage, the recipient's rises by percentage and every other
\* account's percentage is unchanged.
C7_TransferMovesPercentage ==
    [][(/\ TransferStep
        /\ last'.from # last'.to
        /\ last'.token \in DOMAIN Tokens
        /\ Contains(Tokens[last'.token].owners, last'.from)
        /\ 0 < last'.percentage
        /\ last'.percentage <= Percent(TokensByOwner, last'.from, last'.token))
       => (/\ last'.result = "Ok"
           /\ Percent(TokensByOwner', last'.from, last'.token) =
                 Percent(TokensByOwner, last'.from, last'.token) - last'.percentage
           /\ Percent(TokensByOwner', last'.to, last'.token) =
                 Percent(TokensByOwner, last'.to, last'.token) + last'.percentage
           /\ \A a \in Accounts \ {last'.from, last'.to} :
                 Percent(TokensByOwner', a, last'.token) =
                     Percent(TokensByOwner, a, last'.token))]_vars

\* C8: once a successful transfer has moved the last of an account's recorded
\* percentage away (its share reaches exactly 0), the account has no
\* TokensByOwner record, is not in the owners list and is_owner is false.
C8_EmptiedSenderRemoved ==
    [][(/\ TransferStep
        /\ last'.result = "Ok"
        /\ last'.from # last'.to
        /\ last'.token \in DOMAIN Tokens
        /\ 0 < last'.percentage
        /\ last'.percentage = Percent(TokensByOwner, last'.from, last'.token))
       => (/\ <<last'.from, last'.token>> \notin DOMAIN TokensByOwner'
           /\ last'.token \in DOMAIN Tokens'
           /\ ~Contains(Tokens'[last'.token].owners, last'.from))]_vars

\* C9: transfer(A, A, token, p) leaves all five stores unchanged.
C9_SelfTransferNoop ==
    [][(TransferStep /\ last'.from = last'.to) => UNCHANGED stores]_vars

\* An owner's self-transfer of more than it holds has returned Ok.
C9_Witness ==
    /\ last.op = "transfer"
    /\ last.from = last.to
    /\ last.result = "Ok"
    /\ last.percentage > Percent(TokensByOwner, last.from, last.token)

\* C10 as stated: whenever from == to, transfer returns success, also when the
\* token does not exist or from is not one of its owners.
C10_SelfTransferAlwaysOk ==
    (last.op = "transfer" /\ last.from = last.to) => last.result = "Ok"

\* C10, what the code does instead: when from == to, the token-exists and
\* from-is-owner checks still come first, so the call fails with TokenNotFound
\* for a missing token and with NoPermission when from is not an owner; for an
\* owner it succeeds for every percentage.
C10_SelfTransferAfterChecks ==
    [][(TransferStep /\ last'.from = last'.to)
       => last'.result =
             IF last'.token \notin DOMAIN Tokens THEN "TokenNotFound"
             ELSE IF ~Contains(Tokens[last'.token].owners, last'.from)
                  THEN "NoPermission"
                  ELSE "Ok"]_vars

\* A self-transfer of percentage 0 by a non-owner of a live token was refused.
C10_Witness ==
    /\ last.op = "transfer"
    /\ last.from = last.to
    /\ last.percentage = 0
    /\ last.token \in DOMAIN Tokens
    /\ last.result = "NoPermission"

\* The step is a call of the named function; its arguments are in last'.
BurnStep == last'.op = "burn"
MintStep == last'.op = "mint"
DestroyStep == last'.op = "destroy_class"
CreateStep == last'.op = "create_class"

\* C11: for from != to, transfer(from, to, token, 0) fails with WrongArguments
\* and changes no store, whatever the token and the sender's holding.
C11_ZeroPercentageRejected ==
    [][(TransferStep /\ last'.from # last'.to /\ last'.percentage = 0)
       => (last'.result = "WrongArguments" /\ UNCHANGED stores)]_vars

\* C12: after a successful burn no TokensByOwner record of the burned token
\* remains, so is_owner is false for every account, not only for the caller.
C12_BurnWipesAllRecords ==
    (last.op = "burn" /\ last.result = "Ok")
        => \A a \in Accounts : ~is_owner(a, last.token)

\* C13: burn returns TokenNotFound for an absent token, NoPermission for a
\* caller outside the owners list, NumOverflow when total_issuance cannot be
\* decremented, and Ok for any account of the owners list otherwise; a failed
\* burn changes no store, so the token record is still there. (From the
\* storage burn_should_fail writes, the class can be destroyed under a live
\* token; burn then fails with ClassNotFound, equally without a change.)
C13_FailedBurnAtomic ==
    [][BurnStep
       => (/\ last'.result =
                 IF last'.token \notin DOMAIN Tokens THEN "TokenNotFound"
                 ELSE IF ~Contains(Tokens[last'.token].owners, last'.owner)
                      THEN "NoPermission"
                 ELSE IF last'.token[1] \notin DOMAIN Classes
                      THEN "ClassNotFound"
                 ELSE IF Classes[last'.token[1]].total_issuance = 0
                      THEN "NumOverflow"
                 ELSE "Ok"
           /\ last'.result # "Ok" => UNCHANGED stores)]_vars

\* A burn by an owner has failed with NumOverflow and the token is still
\* recorded.
C13_Witness ==
    /\ last.op = "burn"
    /\ last.result = "NumOverflow"
    /\ last.token \in DOMAIN Tokens
    /\ Contains(Tokens[last.token].owners, last.owner)

\* C14: a mint that fails with NoAvailableTokenId, ClassNotFound or
\* NumOverflow leaves NextTokenId, Classes, Tokens and TokensByOwner as they
\* were.
C14_FailedMintAtomic ==
    [][MintStep
       => (/\ last'.result =
                 IF next_token_id(last'.class_id) = MaxTokenId
                 THEN "NoAvailableTokenId"
                 ELSE IF last'.class_id \notin DOMAIN Classes
                      THEN "ClassNotFound"
                 ELSE IF Classes[last'.class_id].total_issuance = MaxTokenId
                      THEN "NumOverflow"
                 ELSE "Ok"
           /\ last'.result # "Ok" => UNCHANGED stores)]_vars

\* A mint has failed with NumOverflow after its token id was advanced inside
\* the closure; the class has no NextTokenId entry.
C14_Witness ==
    /\ last.op = "mint"
    /\ last.result = "NumOverflow"
    /\ last.class_id \notin DOMAIN NextTokenId

\* C15: a successful mint returns the former NextTokenId of the class,
\* advances it by 1, raises the class's total_issuance by 1, creates the token
\* with owners = [owner] and the record (owner, token) = 100, and leaves every
\* other class's counter and issuance and every other token unchanged.
C15_MintEffects ==
    [][(MintStep /\ last'.result = "Ok")
       => LET class_id == last'.class_id
              token == <<last'.class_id, last'.ret>>
          IN  /\ last'.ret = next_token_id(class_id)
              /\ class_id \in DOMAIN NextTokenId'
              /\ NextTokenId'[class_id] = next_token_id(class_id) + 1
              /\ Classes'[class_id].total_issuance =
                    Classes[class_id].total_issuance + 1
              /\ Classes'[class_id].owner = Classes[class_id].owner
              /\ token \notin DOMAIN Tokens
              /\ Tokens'[token].owners = <<last'.owner>>
              /\ TokensByOwner'[<<last'.owner, token>>].percent_owned = 100
              /\ \A c \in ClassIds \ {class_id} :
                    /\ Lookup(NextTokenId', c) = Lookup(NextTokenId, c)
                    /\ Lookup(Classes', c) = Lookup(Classes, c)
              /\ DOMAIN Tokens' = DOMAIN Tokens \cup {token}
              /\ \A t \in DOMAIN Tokens : Tokens'[t] = Tokens[t]
              /\ NextClassId' = NextClassId]_vars

\* A second token has been minted in a class while another class exists.
C15_Witness ==
    /\ last.op = "mint"
    /\ last.result = "Ok"
    /\ last.ret = 1
    /\ Cardinality(DOMAIN Classes) = 2
    /\ Cardinality(DOMAIN Tokens) = 2

\* C16: destroy_class returns ClassNotFound for a missing class, NoPermission
\* for a caller who is not the stored owner and CannotDestroyClass while
\* total_issuance is not 0; a failed destroy_class changes no store.
C16_FailedDestroyAtomic ==
    [][DestroyStep
       => (/\ last'.result =
                 IF last'.class_id \notin DOMAIN Classes THEN "ClassNotFound"
                 ELSE IF Classes[last'.class_id].owner # last'.owner
                      THEN "NoPermission"
                 ELSE IF Classes[last'.class_id].total_issuance # 0
                      THEN "CannotDestroyClass"
                 ELSE "Ok"
           /\ last'.result # "Ok" => UNCHANGED stores)]_vars

\* The class owner's destroy_class was refused because a token is live.
C16_Witness ==
    /\ last.op = "destroy_class"
    /\ last.result = "CannotDestroyClass"
    /\ last.class_id \in DOMAIN Classes
    /\ last.class_id \in DOMAIN NextTokenId

\* C17: destroy_class by the class owner at total_issuance 0 succeeds and
\* removes the Classes entry and the NextTokenId entry of the class; every
\* other class, its NextTokenId entry and NextClassId are unchanged.
C17_DestroyEffects ==
    [][(/\ DestroyStep
        /\ last'.class_id \in DOMAIN Classes
        /\ Classes[last'.class_id].owner = last'.owner
        /\ Classes[last'.class_id].total_issuance = 0)
       => (/\ last'.result = "Ok"
           /\ last'.class_id \notin DOMAIN Classes'
           /\ last'.class_id \notin DOMAIN NextTokenId'
           /\ \A c \in ClassIds \ {last'.class_id} :
                 /\ Lookup(Classes', c) = Lookup(Classes, c)
                 /\ Lookup(NextTokenId', c) = Lookup(NextTokenId, c)
           /\ NextClassId' = NextClassId)]_vars

\* A class in which a token had been minted and burned has been destroyed.
C17_Witness ==
    /\ last.op = "destroy_class"
    /\ last.result = "Ok"
    /\ \E i \in 1 .. Len(returnedTokenIds) :
          returnedTokenIds[i][1] = last.class_id

\* C18: with NextClassId at the maximum of the class id type, create_class
\* fails with NoAvailableClassId and changes no store.
C18_CreateAtMaxFails ==
    [][(CreateStep /\ NextClassId = MaxClassId)
       => (last'.result = "NoAvailableClassId" /\ UNCHANGED stores)]_vars

\* create_class has been refused with the counter at its maximum.
C18_Witness ==
    /\ last.op = "create_class"
    /\ last.result = "NoAvailableClassId"
    /\ NextClassId = MaxClassId

\* C19: is_owner(account, token) is true exactly when the token is in Tokens
\* and account is in its owners list.
C19_IsOwnerMatchesOwners ==
    \A a \in Accounts, token \in TokenKeys :
        is_owner(a, token) <=>
            (token \in DOMAIN Tokens /\ Contains(Tokens[token].owners, a))

\* C20: every stored TokensByOwner record has percent_owned between 1 and 100.
C20_NoZeroRecord ==
    \A k \in DOMAIN TokensByOwner :
        /\ TokensByOwner[k].percent_owned >= 1
        /\ TokensByOwner[k].percent_owned <= 100

\* A sequence of accounts in strictly ascending order (sorted, no duplicate).
StrictlyAscending(seq) ==
    \A i \in 1 .. Len(seq), j \in 1 .. Len(seq) : i < j => seq[i] < seq[j]

\* C21: the owners list of every token is sorted in ascending account order,
\* has no duplicate account and is not empty; a transfer that adds a new
\* recipient puts it at its sorted position.
C21_OwnersSorted ==
    \A token \in DOMAIN Tokens :
        /\ Len(Tokens[token].owners) >= 1
        /\ StrictlyAscending(Tokens[token].owners)

\* C22: every token in Tokens belongs to a class present in Classes, and a
\* burn of a live token by one of its owners never returns ClassNotFound.
C22_TokensHaveClass ==
    /\ \A token \in DOMAIN Tokens : token[1] \in DOMAIN Classes
    /\ last.op = "burn" => last.result # "ClassNotFound"

\* The class owner's destroy_class has been refused while a token of the class
\* that was transferred to a second owner is live.
C22_Witness ==
    /\ last.op = "destroy_class"
    /\ last.result = "CannotDestroyClass"
    /\ \E token \in DOMAIN Tokens :
          /\ token[1] = last.class_id
          /\ Len(Tokens[token].owners) >= 2

\* C23: every class id in Classes is below NextClassId, every token id in
\* Tokens is below its class's NextTokenId, and the maximum value of either
\* id type is never returned as an identifier.
C23_IdsBelowCounters ==
    /\ \A class_id \in DOMAIN Classes : class_id < NextClassId
    /\ \A token \in DOMAIN Tokens : token[2] < next_token_id(token[1])
    /\ \A i \in 1 .. Len(returnedClassIds) : returnedClassIds[i] < MaxClassId
    /\ \A i \in 1 .. Len(returnedTokenIds) : returnedTokenIds[i][2] < MaxTokenId

\* A mint has returned the last token id below the maximum, which leaves the
\* class's NextTokenId at the maximum.
C23_Witness ==
    /\ last.op = "mint"
    /\ last.result = "Ok"
    /\ last.ret = MaxTokenId - 1
    /\ next_token_id(last.class_id) = MaxTokenId

\* The step is a call that removes a request; its argument is in last'.
RemoveStep == last'.op \in {"cancel_nft_request", "mint_nft"}

\* The queue differs from before by exactly one removed entry, equal to x.
OneRemoved(before, after, x) ==
    \E i \in 1 .. Len(before) :
        /\ before[i] = x
        /\ after = RemoveAt(before, i - 1)

\* C24: whatever the order of the nft_request calls, when a request equal to
\* pending_nft is in NftPendingQueue, cancel_nft_request and mint_nft find it,
\* remove exactly one occurrence and leave the other entries in place; they
\* return TryToRemoveNftWhichDoesNotExist only when no equal request is queued.
C24_RemoveFindsRequest ==
    [][RemoveStep
       => IF Contains(NftPendingQueue, last'.pending_nft)
          THEN /\ last'.result # "TryToRemoveNftWhichDoesNotExist"
               /\ OneRemoved(NftPendingQueue, NftPendingQueue', last'.pending_nft)
          ELSE /\ last'.result = "TryToRemoveNftWhichDoesNotExist"
               /\ NftPendingQueue' = NftPendingQueue]_vars
====
